---- MODULE Spec2Model ----
(***************************************************************************)
(* Admission validation of the immutable (retention) settings carried in   *)
(* spec.backup.providerConfig of a Seed: pkg/admission/validator/seed.go.  *)
(*                                                                         *)
(* Spec      one admission request with arbitrary old and new objects.     *)
(* LifeSpec  one Seed whose every change passes through the validator.     *)
(***************************************************************************)
EXTENDS Integers, Sequences, FiniteSets, TLC

VARIABLES
    newObj,   \* the new object of the request being validated
    oldObj,   \* the old object of the request (NilObject on creation)
    err,      \* what Validate returned for that request
    pc,       \* "request" (not yet validated), "done", "idle"
    seed      \* LifeSpec: the Seed as stored (NilObject before creation)

vars == <<newObj, oldObj, err, pc, seed>>

----------------------------------------------------------------------------
(* Bounds of the input space *)

\* Longest retentionPeriod string a payload carries.
MaxLen == 3

\* The characters a retentionPeriod string is made of: a sign, two digits
\* and a unit.  "h" is the only unit of time.ParseDuration these characters
\* can spell.
Alphabet == {"-", "0", "1", "h"}

\* The retentionType strings a payload carries; "" is also what a payload
\* without the retentionType field decodes to.
RetentionTypes == {"bucket", "bar", ""}

DurationStrings == UNION {[1..n -> Alphabet] : n \in 0..MaxLen}

----------------------------------------------------------------------------
(* Values *)

\* A nil error.
NilErr == "<nil>"

\* A nil *ImmutableSettings.
NilSettings == [present |-> FALSE]

ImmutableSettings(t, d) ==
    [present |-> TRUE, RetentionType |-> t, RetentionPeriod |-> d]

\* The decoded immutableSettings object; a missing field is the empty string.
ImmutableSettingsJSON ==
    [RetentionType : RetentionTypes, RetentionPeriod : DurationStrings]

\* The bytes of a RawExtension, by what json.Unmarshal makes of them.
RawDocs ==
    {[json |-> "empty"],                                   \* len(Raw) == 0
     [json |-> "malformed"],                               \* not JSON
     [json |-> "object", immutableSettings |-> "absent"],  \* {}
     [json |-> "object", immutableSettings |-> "null"],
     [json |-> "object", immutableSettings |-> "number"]}  \* wrong JSON type
    \cup {[json |-> "object", immutableSettings |-> "object", value |-> v] :
            v \in ImmutableSettingsJSON}

\* A nil *runtime.RawExtension.
NilConfig == [nil |-> TRUE]

ProviderConfigs == {NilConfig} \cup {[nil |-> FALSE, Raw |-> d] : d \in RawDocs}

\* A nil client.Object (no old object: a creation).
NilObject == [kind |-> "<nil>"]

\* An object that is not a *v1beta1.Seed.
OtherObject == [kind |-> "*v1beta1.Shoot"]

\* Spec.Backup is a pointer: NilBackup is a Seed without backup.
NilBackup == [nil |-> TRUE]

Seeds ==
    {[kind |-> "*v1beta1.Seed", Backup |-> NilBackup]}
    \cup {[kind |-> "*v1beta1.Seed",
           Backup |-> [nil |-> FALSE, ProviderConfig |-> c]] :
            c \in ProviderConfigs}

Objects == Seeds \cup {OtherObject, NilObject}

----------------------------------------------------------------------------
(* time.ParseDuration, as called by ParseImmutableSettings.  A Duration is   *)
(* counted in hours here (Go counts nanoseconds): every value is Go's value *)
(* divided by time.Hour, which keeps every comparison of two durations and  *)
(* every comparison with zero.  Fractions ("." is not in Alphabet) and the  *)
(* 63-bit overflow checks (out of reach for MaxLen digits) are left out.    *)

Digits == {"0", "1", "2", "3", "4", "5", "6", "7", "8", "9"}

DigitValue(c) ==
    CASE c = "0" -> 0 [] c = "1" -> 1 [] c = "2" -> 2 [] c = "3" -> 3
      [] c = "4" -> 4 [] c = "5" -> 5 [] c = "6" -> 6 [] c = "7" -> 7
      [] c = "8" -> 8 [] c = "9" -> 9

\* The string a sequence of characters spells.
RECURSIVE Str(_)
Str(s) == IF s = <<>> THEN "" ELSE Head(s) \o Str(Tail(s))

quote(s) == "\"" \o Str(s) \o "\""

\* leadingInt: the leading [0-9]* of s as a number, and the rest of s.
RECURSIVE leadingIntFrom(_, _)
leadingIntFrom(s, x) ==
    IF s = <<>> \/ Head(s) \notin Digits
    THEN [x |-> x, rem |-> s]
    ELSE leadingIntFrom(Tail(s), x * 10 + DigitValue(Head(s)))

leadingInt(s) == leadingIntFrom(s, 0)

\* The length of the unit that starts s: up to the next "." or digit.
RECURSIVE unitLen(_)
unitLen(s) ==
    IF s = <<>> \/ Head(s) = "." \/ Head(s) \in Digits
    THEN 0
    ELSE 1 + unitLen(Tail(s))

\* unitMap, in hours.
unitMap(u) == IF u = <<"h">> THEN 1 ELSE 0

unitKnown(u) == u = <<"h">>

invalidDuration(orig) ==
    [d |-> 0, err |-> "time: invalid duration " \o quote(orig)]

\* The loop of ParseDuration: ([0-9]*[a-z]+)+ over what is left of the string.
RECURSIVE parseDurationLoop(_, _, _)
parseDurationLoop(s, d, orig) ==
    IF s = <<>> THEN [d |-> d, err |-> NilErr]
    ELSE IF ~(Head(s) = "." \/ Head(s) \in Digits) THEN invalidDuration(orig)
    ELSE LET li  == leadingInt(s)
             pre == Len(li.rem) # Len(s)
             i   == unitLen(li.rem)
             u   == SubSeq(li.rem, 1, i)
         IN  IF ~pre THEN invalidDuration(orig)
             ELSE IF i = 0
             THEN [d |-> 0,
                   err |-> "time: missing unit in duration " \o quote(orig)]
             ELSE IF ~unitKnown(u)
             THEN [d |-> 0,
                   err |-> "time: unknown unit " \o quote(u)
                           \o " in duration " \o quote(orig)]
             ELSE parseDurationLoop(SubSeq(li.rem, i + 1, Len(li.rem)),
                                    d + li.x * unitMap(u), orig)

ParseDuration(orig) ==
    LET signed == orig # <<>> /\ Head(orig) \in {"-", "+"}
        neg    == signed /\ Head(orig) = "-"
        s      == IF signed THEN Tail(orig) ELSE orig
    IN  IF s = <<"0">> THEN [d |-> 0, err |-> NilErr]
        ELSE IF s = <<>> THEN invalidDuration(orig)
        ELSE LET r == parseDurationLoop(s, 0, orig)
             IN  IF r.err # NilErr THEN r
                 ELSE IF neg THEN [d |-> 0 - r.d, err |-> NilErr]
                 ELSE r

----------------------------------------------------------------------------
(* pkg/admission/validator/seed.go *)

\* json.Unmarshal(providerConfig.Raw, &config): the decoded
\* config.ImmutableSettings pointer (nil for a missing or null field), or the
\* decoder's error (its text is the decoder's and varies; no rule reads it).
jsonUnmarshal(raw) ==
    IF raw.json = "malformed"
    THEN [err |-> "unexpected end of JSON input", nil |-> TRUE]
    ELSE IF raw.immutableSettings = "number"
    THEN [err |-> "json: cannot unmarshal number into Go struct field "
                  \o ".immutableSettings of type validator.ImmutableSettingsJSON",
          nil |-> TRUE]
    ELSE IF raw.immutableSettings \in {"absent", "null"}
    THEN [err |-> NilErr, nil |-> TRUE]
    ELSE [err |-> NilErr, nil |-> FALSE, value |-> raw.value]

ParseImmutableSettings(providerConfig) ==
    IF providerConfig.nil \/ providerConfig.Raw.json = "empty"
    THEN [settings |-> NilSettings, err |-> NilErr]
    ELSE LET config == jsonUnmarshal(providerConfig.Raw)
         IN  IF config.err # NilErr
             THEN [settings |-> NilSettings,
                   err |-> "error while parsing immutable settings: "
                           \o config.err]
             ELSE IF config.nil
             THEN [settings |-> NilSettings, err |-> NilErr]
             ELSE LET duration == ParseDuration(config.value.RetentionPeriod)
                  IN  IF duration.err # NilErr
                      THEN [settings |-> NilSettings,
                            err |-> "invalid retentionPeriod format: "
                                    \o duration.err]
                      ELSE [settings |->
                                ImmutableSettings(config.value.RetentionType,
                                                  duration.d),
                            err |-> NilErr]

\* Mutant: the period is checked before the type.
validateImmutableSettings_PeriodFirst(imSettings) ==
    IF imSettings.RetentionPeriod <= 0
    THEN "retentionPeriod must be greater than zero"
    ELSE IF imSettings.RetentionType # "bucket"
    THEN "invalid retentionType '" \o imSettings.RetentionType
         \o "'; must be 'bucket'"
    ELSE NilErr

\* Mutant: a zero period passes (< for <=).
validateImmutableSettings_ZeroAllowed(imSettings) ==
    IF imSettings.RetentionType # "bucket"
    THEN "invalid retentionType '" \o imSettings.RetentionType
         \o "'; must be 'bucket'"
    ELSE IF imSettings.RetentionPeriod < 0
    THEN "retentionPeriod must be greater than zero"
    ELSE NilErr

validateImmutableSettings(imSettings) ==
    IF imSettings.RetentionType # "bucket"
    THEN "invalid retentionType '" \o imSettings.RetentionType
         \o "'; must be 'bucket'"
    ELSE IF imSettings.RetentionPeriod <= 0
    THEN "retentionPeriod must be greater than zero"
    ELSE NilErr

\* Dereferencing Spec.Backup of a Seed without backup.
PanicNilBackup ==
    "panic: runtime error: invalid memory address or nil pointer dereference"

\* Mutant: creation does not validate the settings it is given.
validateCreate_NoShapeValidation(newSeed) ==
    IF newSeed.Backup.nil THEN PanicNilBackup
    ELSE LET new == ParseImmutableSettings(newSeed.Backup.ProviderConfig)
         IN  IF new.err # NilErr
             THEN "error parsing immutable settings: " \o new.err
             ELSE NilErr

validateCreate(newSeed) ==
    IF newSeed.Backup.nil THEN PanicNilBackup
    ELSE LET new == ParseImmutableSettings(newSeed.Backup.ProviderConfig)
         IN  IF new.err # NilErr
             THEN "error parsing immutable settings: " \o new.err
             ELSE IF new.settings.present
             THEN validateImmutableSettings(new.settings)
             ELSE NilErr

\* For the mutants of validateUpdate's rules: its parsing of both sides as
\* written; err is the error to return, or nil with both parsed settings.
parseBothAsWritten(oldSeed, newSeed) ==
    IF oldSeed.Backup.nil THEN [err |-> PanicNilBackup]
    ELSE LET old == ParseImmutableSettings(oldSeed.Backup.ProviderConfig)
         IN
         IF old.err # NilErr
         THEN [err |-> "error parsing old immutable settings: " \o old.err]
         ELSE IF newSeed.Backup.nil THEN [err |-> PanicNilBackup]
         ELSE LET new == ParseImmutableSettings(newSeed.Backup.ProviderConfig)
              IN  IF new.err # NilErr
                  THEN [err |-> "error parsing new immutable settings: "
                                \o new.err]
                  ELSE [err |-> NilErr, old |-> old.settings,
                        new |-> new.settings]

\* Mutant: the check against disabling is missing.
rules_NoDisableCheck(oldIm, newIm) ==
    IF newIm.present /\ oldIm.present
       /\ newIm.RetentionPeriod < oldIm.RetentionPeriod
    THEN "reducing the retention period is not allowed"
    ELSE IF newIm.present /\ oldIm.present
            /\ newIm.RetentionType # oldIm.RetentionType
    THEN "modifying the retention type is not allowed"
    ELSE IF ~oldIm.present /\ newIm.present
    THEN validateImmutableSettings(newIm)
    ELSE NilErr

validateUpdate_NoDisableCheck(oldSeed, newSeed) ==
    LET p == parseBothAsWritten(oldSeed, newSeed)
    IN  IF p.err # NilErr THEN p.err ELSE rules_NoDisableCheck(p.old, p.new)

\* Mutant: an unchanged period counts as reduced (<= for <).
rules_PeriodLeq(oldIm, newIm) ==
    IF ~newIm.present /\ oldIm.present
    THEN "disabling immutable settings is not allowed"
    ELSE IF newIm.present /\ oldIm.present
            /\ newIm.RetentionPeriod <= oldIm.RetentionPeriod
    THEN "reducing the retention period is not allowed"
    ELSE IF newIm.present /\ oldIm.present
            /\ newIm.RetentionType # oldIm.RetentionType
    THEN "modifying the retention type is not allowed"
    ELSE IF ~oldIm.present /\ newIm.present
    THEN validateImmutableSettings(newIm)
    ELSE NilErr

validateUpdate_PeriodLeq(oldSeed, newSeed) ==
    LET p == parseBothAsWritten(oldSeed, newSeed)
    IN  IF p.err # NilErr THEN p.err ELSE rules_PeriodLeq(p.old, p.new)

\* Mutant: the check against reducing the period is missing.
rules_NoPeriodCheck(oldIm, newIm) ==
    IF ~newIm.present /\ oldIm.present
    THEN "disabling immutable settings is not allowed"
    ELSE IF newIm.present /\ oldIm.present
            /\ newIm.RetentionType # oldIm.RetentionType
    THEN "modifying the retention type is not allowed"
    ELSE IF ~oldIm.present /\ newIm.present
    THEN validateImmutableSettings(newIm)
    ELSE NilErr

validateUpdate_NoPeriodCheck(oldSeed, newSeed) ==
    LET p == parseBothAsWritten(oldSeed, newSeed)
    IN  IF p.err # NilErr THEN p.err ELSE rules_NoPeriodCheck(p.old, p.new)

\* Mutant: the type is compared before the period.
rules_TypeFirst(oldIm, newIm) ==
    IF ~newIm.present /\ oldIm.present
    THEN "disabling immutable settings is not allowed"
    ELSE IF newIm.present /\ oldIm.present
            /\ newIm.RetentionType # oldIm.RetentionType
    THEN "modifying the retention type is not allowed"
    ELSE IF newIm.present /\ oldIm.present
            /\ newIm.RetentionPeriod < oldIm.RetentionPeriod
    THEN "reducing the retention period is not allowed"
    ELSE IF ~oldIm.present /\ newIm.present
    THEN validateImmutableSettings(newIm)
    ELSE NilErr

validateUpdate_TypeFirst(oldSeed, newSeed) ==
    LET p == parseBothAsWritten(oldSeed, newSeed)
    IN  IF p.err # NilErr THEN p.err ELSE rules_TypeFirst(p.old, p.new)

\* Mutant: the check against changing the type is missing.
rules_NoTypeCheck(oldIm, newIm) ==
    IF ~newIm.present /\ oldIm.present
    THEN "disabling immutable settings is not allowed"
    ELSE IF newIm.present /\ oldIm.present
            /\ newIm.RetentionPeriod < oldIm.RetentionPeriod
    THEN "reducing the retention period is not allowed"
    ELSE IF ~oldIm.present /\ newIm.present
    THEN validateImmutableSettings(newIm)
    ELSE NilErr

validateUpdate_NoTypeCheck(oldSeed, newSeed) ==
    LET p == parseBothAsWritten(oldSeed, newSeed)
    IN  IF p.err # NilErr THEN p.err ELSE rules_NoTypeCheck(p.old, p.new)

\* The rules of validateUpdate unchanged, for a mutant of its parsing.
rules_AsWritten(oldIm, newIm) ==
    IF ~newIm.present /\ oldIm.present
    THEN "disabling immutable settings is not allowed"
    ELSE IF newIm.present /\ oldIm.present
            /\ newIm.RetentionPeriod < oldIm.RetentionPeriod
    THEN "reducing the retention period is not allowed"
    ELSE IF newIm.present /\ oldIm.present
            /\ newIm.RetentionType # oldIm.RetentionType
    THEN "modifying the retention type is not allowed"
    ELSE IF ~oldIm.present /\ newIm.present
    THEN validateImmutableSettings(newIm)
    ELSE NilErr

\* Mutant: the new payload is parsed before the old one.
validateUpdate_NewParsedFirst(oldSeed, newSeed) ==
    IF newSeed.Backup.nil THEN PanicNilBackup
    ELSE LET new == ParseImmutableSettings(newSeed.Backup.ProviderConfig)
         IN
         IF new.err # NilErr
         THEN "error parsing new immutable settings: " \o new.err
         ELSE IF oldSeed.Backup.nil THEN PanicNilBackup
         ELSE LET old == ParseImmutableSettings(oldSeed.Backup.ProviderConfig)
              IN  IF old.err # NilErr
                  THEN "error parsing old immutable settings: " \o old.err
                  ELSE rules_AsWritten(old.settings, new.settings)

validateUpdate(oldSeed, newSeed) ==
    IF oldSeed.Backup.nil THEN PanicNilBackup
    ELSE LET old == ParseImmutableSettings(oldSeed.Backup.ProviderConfig)
         IN
         IF old.err # NilErr
         THEN "error parsing old immutable settings: " \o old.err
         ELSE IF newSeed.Backup.nil THEN PanicNilBackup
         ELSE LET new == ParseImmutableSettings(newSeed.Backup.ProviderConfig)
                  oldImSettings == old.settings
                  newImSettings == new.settings
              IN
              IF new.err # NilErr
              THEN "error parsing new immutable settings: " \o new.err
              ELSE IF ~newImSettings.present /\ oldImSettings.present
              THEN "disabling immutable settings is not allowed"
              ELSE IF newImSettings.present /\ oldImSettings.present
                      /\ newImSettings.RetentionPeriod
                            < oldImSettings.RetentionPeriod
              THEN "reducing the retention period is not allowed"
              ELSE IF newImSettings.present /\ oldImSettings.present
                      /\ newImSettings.RetentionType
                            # oldImSettings.RetentionType
              THEN "modifying the retention type is not allowed"
              ELSE IF ~oldImSettings.present /\ newImSettings.present
              THEN validateImmutableSettings(newImSettings)
              ELSE NilErr

Validate(new, old) ==
    IF new.kind # "*v1beta1.Seed"
    THEN "wrong object type " \o new.kind \o " for new object"
    ELSE IF old # NilObject
    THEN IF old.kind # "*v1beta1.Seed"
         THEN "wrong object type " \o old.kind \o " for old object"
         ELSE validateUpdate(old, new)
    ELSE validateCreate(new)

----------------------------------------------------------------------------
(* The admission of a request.  The webhook only answers; the API server     *)
(* stores the new object iff the answer is a nil error.                     *)

\* Validate called for a creation (no old object).
AdmitCreate ==
    /\ pc = "request"
    /\ oldObj = NilObject
    /\ err' = Validate(newObj, oldObj)
    /\ seed' = IF err' = NilErr THEN newObj ELSE seed
    /\ pc' = "done"
    /\ UNCHANGED <<newObj, oldObj>>

\* Validate called for an update (an old object is given).
AdmitUpdate ==
    /\ pc = "request"
    /\ oldObj # NilObject
    /\ err' = Validate(newObj, oldObj)
    /\ seed' = IF err' = NilErr THEN newObj ELSE seed
    /\ pc' = "done"
    /\ UNCHANGED <<newObj, oldObj>>

----------------------------------------------------------------------------
(* Spec: one admission request; the old object (the object as stored, or    *)
(* none) and the new object are arbitrary.                                  *)

Init ==
    /\ newObj \in Objects
    /\ oldObj \in Objects
    /\ seed = oldObj
    /\ err = NilErr
    /\ pc = "request"

Next == AdmitCreate \/ AdmitUpdate

Spec == Init /\ [][Next]_vars

----------------------------------------------------------------------------
(* LifeSpec: one Seed from before its creation; every request's old object  *)
(* is the Seed as stored.                                                   *)

LifeInit ==
    /\ newObj = NilObject
    /\ oldObj = NilObject
    /\ seed = NilObject
    /\ err = NilErr
    /\ pc = "idle"

\* A request arrives: a creation if the Seed does not exist, else an update.
Receive(new) ==
    /\ pc = "idle"
    /\ newObj' = new
    /\ oldObj' = seed
    /\ pc' = "request"
    /\ UNCHANGED <<err, seed>>

\* The answer has been delivered.
Respond ==
    /\ pc = "done"
    /\ newObj' = NilObject
    /\ oldObj' = NilObject
    /\ err' = NilErr
    /\ pc' = "idle"
    /\ UNCHANGED seed

LifeNext ==
    \/ \E new \in Objects : Receive(new)
    \/ AdmitCreate
    \/ AdmitUpdate
    \/ Respond

LifeSpec == LifeInit /\ [][LifeNext]_vars

----------------------------------------------------------------------------
(* What the properties below speak of *)

\* o is a Seed that carries a backup section (and so a providerConfig).
HasPayload(o) == o.kind = "*v1beta1.Seed" /\ ~o.Backup.nil

Parsed(o) == ParseImmutableSettings(o.Backup.ProviderConfig)

\* o's payload parses, to settings or to none.
Parses(o) == HasPayload(o) /\ Parsed(o).err = NilErr

SettingsOf(o) == Parsed(o).settings

Present(o) == Parses(o) /\ SettingsOf(o).present

Absent(o) == Parses(o) /\ ~SettingsOf(o).present

TypeOf(o) == SettingsOf(o).RetentionType

PeriodOf(o) == SettingsOf(o).RetentionPeriod

\* The post-validation shape of settings.
ShapeValid(o) == Present(o) /\ TypeOf(o) = "bucket" /\ PeriodOf(o) > 0

Accepted == pc = "done" /\ err = NilErr

\* A validated update request both of whose payloads parse.
UpdateParsed == pc = "done" /\ Parses(oldObj) /\ Parses(newObj)

\* A validated creation request whose payload parses.
CreateParsed == pc = "done" /\ oldObj = NilObject /\ Parses(newObj)

ErrDisabling == "disabling immutable settings is not allowed"

ErrReducing == "reducing the retention period is not allowed"

ErrModifying == "modifying the retention type is not allowed"

ErrPeriod == "retentionPeriod must be greater than zero"

ErrType(t) == "invalid retentionType '" \o t \o "'; must be 'bucket'"

----------------------------------------------------------------------------
(* Properties of Spec *)

\* C1: an update whose payloads both parse, with old settings present and
\* new settings absent, is rejected with exactly "disabling immutable
\* settings is not allowed", whatever the old type and period are.
C1_DisablingRejected ==
    (UpdateParsed /\ Present(oldObj) /\ Absent(newObj)) => err = ErrDisabling

\* C1 witness: old settings that fail shape validation are being disabled.
C1_Witness ==
    /\ UpdateParsed /\ Present(oldObj) /\ Absent(newObj)
    /\ TypeOf(oldObj) # "bucket" /\ PeriodOf(oldObj) < 0
    /\ err = ErrDisabling

\* C2: an update between shape-valid settings of the same type is rejected
\* with "reducing the retention period is not allowed" if the new period is
\* smaller than the old one, and accepted otherwise.
C2_PeriodMonotone ==
    (UpdateParsed /\ ShapeValid(oldObj) /\ ShapeValid(newObj)
        /\ TypeOf(oldObj) = TypeOf(newObj))
    => IF PeriodOf(newObj) < PeriodOf(oldObj)
       THEN err = ErrReducing
       ELSE err = NilErr

\* C2 witness: a shape-valid period is reduced to a smaller shape-valid one.
C2_Witness ==
    /\ UpdateParsed /\ ShapeValid(oldObj) /\ ShapeValid(newObj)
    /\ PeriodOf(newObj) < PeriodOf(oldObj)
    /\ err = ErrReducing

\* C3: an update between present settings of different types is rejected;
\* the error is "modifying the retention type is not allowed" exactly when
\* the period is not reduced, and "reducing the retention period is not
\* allowed" when it is.
C3_TypeChangeRejected ==
    (UpdateParsed /\ Present(oldObj) /\ Present(newObj)
        /\ TypeOf(oldObj) # TypeOf(newObj))
    => /\ err # NilErr
       /\ (err = ErrModifying) <=> (PeriodOf(newObj) >= PeriodOf(oldObj))
       /\ (PeriodOf(newObj) < PeriodOf(oldObj)) => err = ErrReducing

\* C3 witness: type changed and period reduced in the same update.
C3_Witness ==
    /\ UpdateParsed /\ Present(oldObj) /\ Present(newObj)
    /\ TypeOf(oldObj) # TypeOf(newObj)
    /\ PeriodOf(newObj) < PeriodOf(oldObj)
    /\ err = ErrReducing

\* C4: an update whose old and new settings are identical (both absent, or
\* both present with the same type and period, of any shape) is accepted.
C4_IdenticalAccepted ==
    (UpdateParsed /\ SettingsOf(oldObj) = SettingsOf(newObj)) => err = NilErr

\* C4 witness: identical present settings, accepted.
C4_Witness ==
    /\ UpdateParsed /\ Present(oldObj)
    /\ SettingsOf(oldObj) = SettingsOf(newObj)
    /\ err = NilErr

\* C5: on create, and on update when the old settings are absent, absent new
\* settings are accepted; present new settings are rejected with the invalid
\* retentionType error if the type is not "bucket" (also when the period is
\* not positive), else with "retentionPeriod must be greater than zero" if
\* the period is not positive, else accepted.
C5_ShapeValidation ==
    ((CreateParsed \/ (UpdateParsed /\ Absent(oldObj))))
    => err = IF Absent(newObj) THEN NilErr
             ELSE IF TypeOf(newObj) # "bucket" THEN ErrType(TypeOf(newObj))
             ELSE IF PeriodOf(newObj) <= 0 THEN ErrPeriod
             ELSE NilErr

\* C5 witness: newly enabled settings with both a wrong type and a
\* non-positive period get the type error.
C5_Witness ==
    /\ UpdateParsed /\ Absent(oldObj) /\ Present(newObj)
    /\ TypeOf(newObj) # "bucket" /\ PeriodOf(newObj) <= 0
    /\ err = ErrType(TypeOf(newObj))

\* C6 as stated: on create and on newly enabling update, every payload whose
\* period parses to a non-positive duration is rejected with
\* "retentionPeriod must be greater than zero".
C6_NonPositiveRejected_AsStated ==
    ((CreateParsed \/ (UpdateParsed /\ Absent(oldObj)))
        /\ Present(newObj) /\ PeriodOf(newObj) <= 0)
    => err = ErrPeriod

\* C6 as amended: such a payload is always rejected; with
\* "retentionPeriod must be greater than zero" when its retentionType is
\* "bucket", and with the invalid retentionType error otherwise.
C6_NonPositiveRejected ==
    ((CreateParsed \/ (UpdateParsed /\ Absent(oldObj)))
        /\ Present(newObj) /\ PeriodOf(newObj) <= 0)
    => /\ err # NilErr
       /\ TypeOf(newObj) = "bucket" => err = ErrPeriod
       /\ TypeOf(newObj) # "bucket" => err = ErrType(TypeOf(newObj))

\* C6 witness: a creation with type "bucket" and a zero period.
C6_Witness ==
    /\ CreateParsed /\ Present(newObj)
    /\ TypeOf(newObj) = "bucket" /\ PeriodOf(newObj) = 0
    /\ err = ErrPeriod

\* C7 as stated: whenever a request (create, or update with any old
\* settings) is accepted and its new settings are present, they have type
\* "bucket" and a positive period.
C7_AcceptedShapeValid_AsStated ==
    (Accepted /\ Present(newObj)) => ShapeValid(newObj)

\* C7 as amended: the same, for creations and for updates whose old settings
\* are absent or themselves have type "bucket" and a positive period.
C7_AcceptedShapeValid ==
    (Accepted /\ Present(newObj)
        /\ (oldObj = NilObject \/ Absent(oldObj) \/ ShapeValid(oldObj)))
    => ShapeValid(newObj)

\* C7 witness: an accepted update of shape-valid settings to a longer period.
C7_Witness ==
    /\ Accepted /\ ShapeValid(oldObj) /\ Present(newObj)
    /\ PeriodOf(newObj) > PeriodOf(oldObj)

\* C8: in an update, an old payload that fails to parse yields "error parsing
\* old immutable settings: ..." (also when the new payload fails too), and a
\* new payload that alone fails to parse yields "error parsing new immutable
\* settings: ..."; no policy error is reported in either case.
C8_ParseErrorsFirst ==
    (pc = "done" /\ HasPayload(oldObj) /\ HasPayload(newObj))
    => /\ Parsed(oldObj).err # NilErr
            => err = "error parsing old immutable settings: "
                     \o Parsed(oldObj).err
       /\ (Parsed(oldObj).err = NilErr /\ Parsed(newObj).err # NilErr)
            => err = "error parsing new immutable settings: "
                     \o Parsed(newObj).err

\* C8 witness: both payloads fail to parse and the old side is reported.
C8_Witness ==
    /\ pc = "done" /\ HasPayload(oldObj) /\ HasPayload(newObj)
    /\ Parsed(oldObj).err # NilErr /\ Parsed(newObj).err # NilErr
    /\ err = "error parsing old immutable settings: " \o Parsed(oldObj).err

----------------------------------------------------------------------------
(* Properties of LifeSpec *)

\* C9: a Seed created through an accepted create request and changed only by
\* accepted updates has settings that are absent, or have type "bucket" and a
\* positive period.
C9_StoredShapeValid ==
    seed # NilObject => (Absent(seed) \/ ShapeValid(seed))

\* C9 witness: the stored Seed carries settings after an accepted update that
\* lengthened the period.
C9_Witness ==
    /\ Accepted /\ Present(oldObj) /\ seed = newObj
    /\ ShapeValid(seed) /\ PeriodOf(seed) > PeriodOf(oldObj)

\* C10: once the stored settings are present they stay present, their type
\* never changes and their period never decreases from one state to the next.
C10_OnlyStrengthened ==
    [][(seed # NilObject /\ Present(seed))
        => /\ Present(seed')
           /\ TypeOf(seed') = TypeOf(seed)
           /\ PeriodOf(seed') >= PeriodOf(seed)]_vars

\* C10 witness: the stored settings were replaced by ones with a longer
\* period.
C10_Witness ==
    /\ pc = "done" /\ err = NilErr /\ oldObj # NilObject /\ Present(oldObj)
    /\ seed = newObj /\ seed # oldObj
    /\ PeriodOf(seed) > PeriodOf(oldObj)

====
